---- MODULE Spec2Model ----
(***************************************************************************)
(* Model of src/src/baseControl.js: the @baseControl decorator and the     *)
(* Control wrapper component that owns the control state.                  *)
(*                                                                         *)
(* JavaScript values are encoded as follows:                               *)
(*   - booleans are TLA+ booleans (active, hover, acting, disabled);       *)
(*   - beacon is true / false / null, encoded "true" / "false" / "null";   *)
(*   - selecting is null, undefined, false or a point {x, y}, encoded as   *)
(*     <<kind, x, y>> with kind in "null", "undefined", "false", "point";  *)
(*   - a page coordinate is the number PageCoord or Undefined.             *)
(***************************************************************************)
EXTENDS Integers, Sequences, FiniteSets

VARIABLES
    state,          \* Control.state, exposed as context.controlState
    tabPressed,     \* module-level flag kept by the window listeners
    component,      \* which optional methods the decorated component defines
    props,          \* the props the claims depend on (onControl, disabled)
    options,        \* the decorator's options (manualReturn)
    batched,        \* whether setState calls of one handler are batched
    calls,          \* the calls the most recent handler made, in order
    lastEvent,      \* the most recent event delivered
    escSeq,         \* observer: progress of an Escape-cancel sequence
    spaceSeq        \* observer: progress of a Space keyDown/keyUp sequence

vars == <<state, tabPressed, component, props, options, batched,
          calls, lastEvent, escSeq, spaceSeq>>

config == <<component, props, options, batched>>

----------------------------------------------------------------------------
(* Bounds and value domains                                                *)

Undefined == "undefined"

\* The page coordinate of every pointer event that carries one.
PageCoord == "0"

KeyCodes == [ESC |-> 27, ENTER |-> 13, SPACE |-> 32, TAB |-> 9]

\* The four keys the program names and one it does not (65, the letter A).
Keys == {KeyCodes.ESC, KeyCodes.ENTER, KeyCodes.SPACE, KeyCodes.TAB} \cup {65}

\* What the observers keep of an event.
Summary(e) == [type |-> e.type, keyCode |-> e.keyCode]

\* e.button: the primary button, another button, or absent (touch events).
Buttons == {"0", "1", Undefined}

\* The event object handed to a handler.
Event(type, keyCode, button, pageX, pageY, nativePageX, nativePageY) ==
    [type |-> type, keyCode |-> keyCode, button |-> button,
     pageX |-> pageX, pageY |-> pageY,
     nativeEvent |-> [pageX |-> nativePageX, pageY |-> nativePageY]]

KeyEvent(type, keyCode) ==
    Event(type, keyCode, Undefined, Undefined, Undefined, Undefined, Undefined)

\* Pointer events: pageX/pageY on the event itself, only on its nativeEvent,
\* or on neither (a touch event keeps its coordinates in e.touches).
PointerEvents(type) ==
    {Event(type, Undefined, b, c[1], c[1], c[2], c[2]) :
        b \in Buttons,
        c \in {<<PageCoord, PageCoord>>, <<Undefined, PageCoord>>,
                <<Undefined, Undefined>>}}

PlainEvent(type) == KeyEvent(type, Undefined)

\* start() is called without an argument by the keyDown handler.
NoEvent == PlainEvent("undefined")

SelNull == <<"null", Undefined, Undefined>>
SelUndefined == <<"undefined", Undefined, Undefined>>
SelFalse == <<"false", Undefined, Undefined>>
Point(x, y) == <<"point", x, y>>

IsPoint(sel) == sel[1] = "point"

----------------------------------------------------------------------------
(* The wrapper component's state and setState                              *)

InitialState(disabledProp) ==
    [active |-> FALSE,
     beacon |-> "false",
     hover |-> FALSE,
     acting |-> FALSE,
     selecting |-> SelNull,
     disabled |-> disabledProp]

\* React's setState: a shallow merge of the partial update into the state.
Merge(s, control) ==
    [f \in DOMAIN s |-> IF f \in DOMAIN control THEN control[f] ELSE s[f]]

\* A running handler: ctl is what this.control reads (context.controlState),
\* next is the state with every update so far applied, calls the calls made.
Begin == [ctl |-> state, next |-> state, calls |-> <<>>]

Call(fn, arg) == [fn |-> fn, arg |-> arg]

setControlState(m, control) ==
    LET merged == Merge(m.next, control)
    IN  [ctl |-> IF batched THEN m.ctl ELSE merged,
         next |-> merged,
         calls |-> Append(m.calls, Call("setControlState", control))]

controlWillUpdate(m, control) ==
    IF component.controlWillUpdate
    THEN [m EXCEPT !.calls = Append(@, Call("controlWillUpdate", control))]
    ELSE m

onControl(m) ==
    IF props.onControl
    THEN [m EXCEPT !.calls = Append(@, Call("onControl", m.ctl))]
    ELSE m

\* Variant of setControl that reports to onControl before the update is
\* applied; C9 must tell it from setControl.
setControlNotifyFirst(m, control) ==
    setControlState(onControl(controlWillUpdate(m, control)), control)

setControl(m, control) ==
    onControl(setControlState(controlWillUpdate(m, control), control))

----------------------------------------------------------------------------
(* start and finish                                                        *)

PointOf(e) ==
    IF e = NoEvent
    THEN SelUndefined
    ELSE Point(IF e.pageX = Undefined THEN e.nativeEvent.pageX ELSE e.pageX,
               IF e.pageY = Undefined THEN e.nativeEvent.pageY ELSE e.pageY)

StartBeacon(m, point) ==
    IF ~IsPoint(point) /\ (m.ctl.beacon = "true" \/ m.ctl.beacon = "null")
    THEN "null"
    ELSE "false"

\* Variant of start without the disabled guard; C4 must tell it from start.
startIgnoringDisabled(m, e) ==
    LET point == PointOf(e)
    IN  setControl(m, [acting |-> component.controlPrimaryAction,
                       beacon |-> StartBeacon(m, point),
                       selecting |-> point])

start(m, e) ==
    IF ~m.ctl.disabled
    THEN LET point == PointOf(e)
         IN  setControl(m, [acting |-> component.controlPrimaryAction,
                            beacon |-> StartBeacon(m, point),
                            selecting |-> point])
    ELSE m

controlPrimaryAction(m, e) ==
    IF m.ctl.acting = TRUE /\ component.controlPrimaryAction
    THEN [m EXCEPT !.calls = Append(@, Call("controlPrimaryAction", e))]
    ELSE m

FinishBeacon(m) ==
    IF m.ctl.beacon = "true" \/ m.ctl.beacon = "null" THEN "true" ELSE "false"

FinishUpdate(m) ==
    [acting |-> FALSE, beacon |-> FinishBeacon(m), selecting |-> SelFalse]

\* Variant of finish that never runs the primary action; C5 must tell it
\* from finish.
finishWithoutAction(m, e) == setControl(m, FinishUpdate(m))

finish(m, e) ==
    LET m1 == controlPrimaryAction(m, e)
    IN  setControl(m1, FinishUpdate(m1))

----------------------------------------------------------------------------
(* Event handlers, as functions from the running handler to its result     *)

\* Variant of the Escape update that leaves acting alone; C1 must tell it
\* from EscUpdate.
EscUpdateKeepsActing == [beacon |-> "false", selecting |-> SelFalse]

EscUpdate == [beacon |-> "false", selecting |-> SelFalse, acting |-> FALSE]

onKeyDown(m, e) ==
    CASE e.keyCode = KeyCodes.ENTER -> start(m, NoEvent)
      [] e.keyCode = KeyCodes.SPACE -> start(m, NoEvent)
      [] e.keyCode = KeyCodes.ESC -> setControl(m, EscUpdate)
      [] OTHER -> m

\* Variant of the keyUp handler without the Space case; C2 must tell it from
\* onKeyUp.
onKeyUpEnterOnly(m, e) ==
    IF e.keyCode = KeyCodes.ENTER THEN finish(m, e) ELSE m

onKeyUp(m, e) ==
    CASE e.keyCode = KeyCodes.ENTER -> finish(m, e)
      [] e.keyCode = KeyCodes.SPACE -> finish(m, e)
      [] OTHER -> m

onMouseEnter(m, e) == setControl(m, [hover |-> TRUE])

\* Variant of the mouseLeave handler that only clears hover; C8 must tell it
\* from onMouseLeave.
onMouseLeaveHoverOnly(m, e) == setControl(m, [hover |-> FALSE])

onMouseLeave(m, e) == finish(setControl(m, [hover |-> FALSE]), e)

onPointerStart(m, e) ==
    IF e.button = "0" \/ e.button = Undefined THEN start(m, e) ELSE m

onPointerEnd(m, e) == finish(m, e)

onBlur(m, e) == setControl(m, [beacon |-> "false", active |-> FALSE])

\* Variant of the focus handler that ignores tabPressed; C7 must tell it
\* from onFocus.
onFocusAlwaysBeacon(m, e) ==
    setControl(setControl(m, [beacon |-> "true"]), [active |-> TRUE])

onFocus(m, e) ==
    LET m1 == IF tabPressed THEN setControl(m, [beacon |-> "true"]) ELSE m
    IN  setControl(m1, [active |-> TRUE])

----------------------------------------------------------------------------
(* Observers of the event sequence (history only; nothing reads them)      *)

StartEvents == {"mouseDown", "touchStart"}
FinishEvents == {"mouseUp", "mouseOut", "mouseLeave", "touchEnd"}

IsStartEvent(e) ==
    \/ e.type \in StartEvents
    \/ e.type = "keyDown" /\ e.keyCode \in {KeyCodes.SPACE, KeyCodes.ENTER}

IsFinishEvent(e) ==
    \/ e.type \in FinishEvents
    \/ e.type = "keyUp" /\ e.keyCode \in {KeyCodes.SPACE, KeyCodes.ENTER}

IsEscape(e) == e.type = "keyDown" /\ e.keyCode = KeyCodes.ESC

\* "cancelled": Escape came while acting and no start event came since;
\* "finished": the event just delivered is the first finish event after it.
EscNext(e) ==
    IF IsEscape(e) /\ state.acting THEN "cancelled"
    ELSE IF IsStartEvent(e) THEN "idle"
    ELSE IF IsFinishEvent(e) /\ escSeq = "cancelled" THEN "finished"
    ELSE IF escSeq = "finished" THEN "idle"
    ELSE escSeq

\* "down": Space keyDown came, and no Escape keyDown or finish event since;
\* "up": the event just delivered is the Space keyUp ending that sequence.
SpaceNext(e) ==
    IF e.type = "keyDown" /\ e.keyCode = KeyCodes.SPACE THEN "down"
    ELSE IF e.type = "keyUp" /\ e.keyCode = KeyCodes.SPACE /\ spaceSeq = "down"
         THEN "up"
    ELSE IF IsEscape(e) \/ IsFinishEvent(e) THEN "idle"
    ELSE IF spaceSeq = "up" THEN "idle"
    ELSE spaceSeq

Observe(e) ==
    /\ lastEvent' = Summary(e)
    /\ escSeq' = EscNext(e)
    /\ spaceSeq' = SpaceNext(e)

\* Delivery of event e to the component, m being the handler's result.
Deliver(e, m) ==
    /\ state' = m.next
    /\ calls' = m.calls
    /\ Observe(e)
    /\ UNCHANGED <<tabPressed, config>>

----------------------------------------------------------------------------
(* Actions                                                                 *)

Init ==
    /\ component \in [controlPrimaryAction : BOOLEAN, controlWillUpdate : BOOLEAN]
    /\ props \in [onControl : BOOLEAN, disabled : BOOLEAN]
    /\ options \in [manualReturn : BOOLEAN]
    /\ batched \in BOOLEAN
    /\ state = InitialState(props.disabled)
    /\ tabPressed = FALSE
    /\ calls = <<>>
    /\ lastEvent = Summary(NoEvent)
    /\ escSeq = "idle"
    /\ spaceSeq = "idle"

keyDown ==
    \E k \in Keys :
        LET e == KeyEvent("keyDown", k) IN Deliver(e, onKeyDown(Begin, e))

keyUp ==
    \E k \in Keys :
        LET e == KeyEvent("keyUp", k) IN Deliver(e, onKeyUp(Begin, e))

mouseEnter ==
    LET e == PlainEvent("mouseEnter") IN Deliver(e, onMouseEnter(Begin, e))

mouseLeave ==
    LET e == PlainEvent("mouseLeave") IN Deliver(e, onMouseLeave(Begin, e))

PointerStart(type) ==
    \E e \in PointerEvents(type) : Deliver(e, onPointerStart(Begin, e))

mouseDown == PointerStart("mouseDown")

touchStart == PointerStart("touchStart")

PointerEnd(type) ==
    LET e == PlainEvent(type) IN Deliver(e, onPointerEnd(Begin, e))

mouseUp == PointerEnd("mouseUp")

mouseOut == PointerEnd("mouseOut")

touchEnd == PointerEnd("touchEnd")

blur ==
    LET e == PlainEvent("blur") IN Deliver(e, onBlur(Begin, e))

focus ==
    LET e == PlainEvent("focus") IN Deliver(e, onFocus(Begin, e))

\* The window listeners see key events wherever they happen.
windowKeyDown ==
    /\ \E k \in Keys :
        /\ tabPressed' = IF k = KeyCodes.TAB THEN TRUE ELSE tabPressed
        /\ Observe(KeyEvent("window.keydown", k))
    /\ calls' = <<>>
    /\ UNCHANGED <<state, config>>

windowKeyUp ==
    /\ Observe(PlainEvent("window.keyup"))
    /\ tabPressed' = FALSE
    /\ calls' = <<>>
    /\ UNCHANGED <<state, config>>

Next ==
    \/ keyDown
    \/ keyUp
    \/ mouseEnter
    \/ mouseLeave
    \/ mouseDown
    \/ touchStart
    \/ mouseUp
    \/ mouseOut
    \/ touchEnd
    \/ blur
    \/ focus
    \/ windowKeyDown
    \/ windowKeyUp

Spec == Init /\ [][Next]_vars

----------------------------------------------------------------------------
(* Vocabulary of the properties                                            *)

\* The positions in the most recent handler's calls that call fn.
CallsTo(fn) == {i \in 1..Len(calls) : calls[i].fn = fn}

Invoked == CallsTo("controlPrimaryAction") # {}

InvokedOnce == Cardinality(CallsTo("controlPrimaryAction")) = 1

IsEnterKey(ev) ==
    ev.type \in {"keyDown", "keyUp"} /\ ev.keyCode = KeyCodes.ENTER

----------------------------------------------------------------------------
(* C1: once Escape is pressed while the control is acting, acting is false *)
(* until the next start event, and the first finish event that follows     *)
(* without a start event in between does not invoke controlPrimaryAction.  *)

C1_EscapeCancels ==
    /\ escSeq = "cancelled" => ~state.acting
    /\ escSeq = "finished" => ~state.acting /\ ~Invoked

C1_Witness ==
    /\ escSeq = "finished"
    /\ IsFinishEvent(lastEvent)
    /\ component.controlPrimaryAction
    /\ ~Invoked

----------------------------------------------------------------------------
(* C2: on a control that is not disabled and whose component defines       *)
(* controlPrimaryAction, a Space keyDown followed by a Space keyUp, with   *)
(* no Escape keyDown and no finish event in between, invokes               *)
(* controlPrimaryAction exactly once, at the keyUp and not before it.      *)

C2_SpaceRunsPrimaryAction ==
    ~state.disabled /\ component.controlPrimaryAction =>
        /\ spaceSeq = "down" => state.acting /\ ~Invoked
        /\ spaceSeq = "up" => InvokedOnce /\ ~state.acting

C2_Witness ==
    /\ spaceSeq = "up"
    /\ lastEvent = Summary(KeyEvent("keyUp", KeyCodes.SPACE))
    /\ ~state.disabled
    /\ InvokedOnce

----------------------------------------------------------------------------
(* C3: with the option manualReturn = true, a keyDown or keyUp of Return   *)
(* leaves acting, beacon and selecting unchanged and does not invoke       *)
(* controlPrimaryAction.                                                   *)

C3_ManualReturnDoesNothing ==
    [][options.manualReturn /\ IsEnterKey(lastEvent') =>
          /\ state'.acting = state.acting
          /\ state'.beacon = state.beacon
          /\ state'.selecting = state.selecting
          /\ CallsTo("controlPrimaryAction")' = {}]_vars

----------------------------------------------------------------------------
(* C4: a disabled control is never acting, its selecting is never a        *)
(* pointer position, and no handler invokes controlPrimaryAction on it.    *)

C4_DisabledNeverActs ==
    state.disabled =>
        /\ ~state.acting
        /\ ~IsPoint(state.selecting)
        /\ ~Invoked

C4_Witness ==
    /\ state.disabled
    /\ component.controlPrimaryAction
    /\ IsStartEvent(lastEvent)
    /\ lastEvent.type = "mouseDown"
    /\ state.selecting = SelFalse

----------------------------------------------------------------------------
(* C5, as stated: every step that takes acting from true to false invokes  *)
(* controlPrimaryAction.                                                   *)

C5_Original ==
    [][state.acting /\ ~state'.acting => Invoked']_vars

(* C5, amended: every step that takes acting from true to false, other     *)
(* than an Escape keyDown, invokes controlPrimaryAction exactly once.      *)

C5_ActionOnFinish ==
    [][state.acting /\ ~state'.acting /\ ~IsEscape(lastEvent') =>
          InvokedOnce']_vars

C5_Witness ==
    /\ IsFinishEvent(lastEvent)
    /\ lastEvent.type = "mouseUp"
    /\ ~state.acting
    /\ InvokedOnce

----------------------------------------------------------------------------
(* C6: whenever selecting goes from a pointer position to false on a       *)
(* control that is not disabled, the control is active.                    *)

C6_ActiveWhenSelectingEnds ==
    [][/\ IsPoint(state.selecting)
       /\ state'.selecting = SelFalse
       /\ ~state.disabled
       => state'.active]_vars

----------------------------------------------------------------------------
(* C7: tabPressed is set by a Tab keydown on window and cleared by every   *)
(* keyup on window, and by nothing else; a focus event while tabPressed    *)
(* sets beacon = true and active = true, and a focus event while not       *)
(* tabPressed sets active = true and leaves beacon unchanged.              *)

C7_BeaconOnKeyboardFocus ==
    [][/\ lastEvent'.type = "focus" =>
             /\ state'.active
             /\ tabPressed => state'.beacon = "true"
             /\ ~tabPressed => state'.beacon = state.beacon
       /\ tabPressed' =
             IF lastEvent' = Summary(KeyEvent("window.keydown", KeyCodes.TAB))
             THEN TRUE
             ELSE IF lastEvent'.type = "window.keyup" THEN FALSE
             ELSE tabPressed]_vars

C7_Witness ==
    /\ lastEvent.type = "focus"
    /\ tabPressed
    /\ state.active
    /\ state.beacon = "true"
    /\ CallsTo("setControlState") # {}

----------------------------------------------------------------------------
(* C8: after every finish event acting = false and selecting = false, and  *)
(* a finish event that finds acting = true on a component that defines     *)
(* controlPrimaryAction invokes it, mouseLeave and mouseOut included.      *)

C8_FinishEndsActing ==
    [][IsFinishEvent(lastEvent') =>
          /\ ~state'.acting
          /\ state'.selecting = SelFalse
          /\ state.acting /\ component.controlPrimaryAction => Invoked']_vars

C8_Witness ==
    /\ lastEvent.type = "mouseLeave"
    /\ Invoked
    /\ ~state.acting
    /\ state.selecting = SelFalse

----------------------------------------------------------------------------
(* C9: in every handler, each update is announced to controlWillUpdate     *)
(* (if defined) with the partial update, then applied by setControlState   *)
(* with the same update, then reported to props.onControl (if given) with  *)
(* context.controlState; the control state changes only by the updates     *)
(* passed to setControlState, and never without onControl being called.    *)

\* The state s with the first k of the calls cs applied.
RECURSIVE Applied(_, _, _)
Applied(s, cs, k) ==
    IF k = 0 THEN s
    ELSE IF cs[k].fn = "setControlState"
         THEN Merge(Applied(s, cs, k - 1), cs[k].arg)
         ELSE Applied(s, cs, k - 1)

OrderedAt(s, cs, i) ==
    CASE cs[i].fn = "controlWillUpdate" ->
            /\ component.controlWillUpdate
            /\ i < Len(cs)
            /\ cs[i + 1].fn = "setControlState"
            /\ cs[i + 1].arg = cs[i].arg
      [] cs[i].fn = "setControlState" ->
            /\ component.controlWillUpdate =>
                   i > 1 /\ cs[i - 1].fn = "controlWillUpdate"
            /\ props.onControl =>
                   i < Len(cs) /\ cs[i + 1].fn = "onControl"
      [] cs[i].fn = "onControl" ->
            /\ props.onControl
            /\ i > 1
            /\ cs[i - 1].fn = "setControlState"
            /\ cs[i].arg = IF batched THEN s ELSE Applied(s, cs, i)
      [] OTHER -> TRUE

C9_UpdateOrder ==
    [][/\ \A i \in 1..Len(calls') : OrderedAt(state, calls', i)
       /\ state' = Applied(state, calls', Len(calls'))
       /\ state' # state /\ props.onControl => CallsTo("onControl")' # {}]_vars

C9_Witness ==
    /\ component.controlWillUpdate
    /\ props.onControl
    /\ lastEvent.type = "mouseLeave"
    /\ Len(calls) = 7

====
